---- MODULE Spec2Model ----
(***************************************************************************)
(* Model of the node inspector/editor of src/features/modals/NodeModal:    *)
(* the component state (formState, editMode), the two stores it writes     *)
(* (useJson.json, useFile.contents) and its handlers.  A JavaScript string *)
(* is a sequence of one-character strings, so that JSON.parse,             *)
(* JSON.stringify and String() are computed character by character.        *)
(***************************************************************************)
EXTENDS Integers, Sequences, FiniteSets

(***************************************************************************)
(* JavaScript values.  A number is an integer (no text of the model holds  *)
(* a fraction or an exponent); an object is the sequence of its own        *)
(* properties in enumeration order; an array hole is Undefined.            *)
(***************************************************************************)
Undefined == [t |-> "undefined"]

Null == [t |-> "null"]

Bool(b) == [t |-> "boolean", b |-> b]

Num(n) == [t |-> "number", n |-> n]

Str(s) == [t |-> "string", s |-> s]

Arr(a) == [t |-> "array", a |-> a]

Obj(o) == [t |-> "object", o |-> o]

\* typeof v === "object" && v !== null
IsContainer(v) == v.t \in {"array", "object"}

(***************************************************************************)
(* Characters and decimal numerals.                                        *)
(***************************************************************************)
QUOTE == "\""

BACKSLASH == "\\"

DigitChars == <<"0", "1", "2", "3", "4", "5", "6", "7", "8", "9">>

IsDigit(c) == \E d \in 1..10 : DigitChars[d] = c

DigitVal(c) == (CHOOSE d \in 1..10 : DigitChars[d] = c) - 1

RECURSIVE NatToString(_)
NatToString(n) ==
    IF n < 10 THEN <<DigitChars[n + 1]>>
    ELSE NatToString(n \div 10) \o <<DigitChars[(n % 10) + 1]>>

\* Number.prototype.toString for an integer
NumberToString(n) == IF n < 0 THEN <<"-">> \o NatToString(-n) ELSE NatToString(n)

RECURSIVE DigitsValue(_, _)
DigitsValue(s, acc) ==
    IF s = <<>> THEN acc ELSE DigitsValue(Tail(s), 10 * acc + DigitVal(Head(s)))

\* a canonical array index: "0", or digits without a leading zero
IsArrayIndex(k) ==
    /\ k # <<>>
    /\ \A j \in 1..Len(k) : IsDigit(k[j])
    /\ (Len(k) > 1 => k[1] # "0")

(***************************************************************************)
(* Property access.  A property key is a string; a number used as a key is *)
(* converted (ToPropertyKey).  Property names come from the documents of   *)
(* the model: the built-in names (length, __proto__, constructor, ...)     *)
(* are not among them.                                                     *)
(***************************************************************************)
ToPropertyKey(seg) == IF seg.t = "number" THEN NumberToString(seg.n) ELSE seg.s

HasOwn(o, k) == \E j \in 1..Len(o) : o[j].k = k

OwnIndex(o, k) == CHOOSE j \in 1..Len(o) : o[j].k = k

\* acc?.[seg]
GetProp(acc, seg) ==
    LET k == ToPropertyKey(seg) IN
    CASE acc.t = "object" ->
           IF HasOwn(acc.o, k) THEN acc.o[OwnIndex(acc.o, k)].v ELSE Undefined
      [] acc.t = "array" ->
           IF IsArrayIndex(k) /\ DigitsValue(k, 0) < Len(acc.a)
           THEN acc.a[DigitsValue(k, 0) + 1] ELSE Undefined
      [] acc.t = "string" ->
           IF IsArrayIndex(k) /\ DigitsValue(k, 0) < Len(acc.s)
           THEN Str(<<acc.s[DigitsValue(k, 0) + 1]>>) ELSE Undefined
      [] OTHER -> Undefined

\* position at which an ordinary object enumerates a new key: integer keys
\* first, in ascending order, then the other keys in insertion order
RECURSIVE InsertAt(_, _, _)
InsertAt(o, k, j) ==
    IF j > Len(o) THEN j
    ELSE IF ~IsArrayIndex(k) THEN Len(o) + 1
    ELSE IF ~IsArrayIndex(o[j].k) THEN j
    ELSE IF DigitsValue(o[j].k, 0) > DigitsValue(k, 0) THEN j
    ELSE InsertAt(o, k, j + 1)

\* obj[k] = v on an ordinary object
ObjSet(o, k, v) ==
    IF HasOwn(o, k) THEN [o EXCEPT ![OwnIndex(o, k)].v = v]
    ELSE LET j == InsertAt(o, k, 1) IN
         SubSeq(o, 1, j - 1) \o <<[k |-> k, v |-> v]>> \o SubSeq(o, j, Len(o))

\* arr[k] = v: an index at or past the length extends the array with holes;
\* a key that is no index is an expando property, which JSON.stringify of
\* an array never writes
ArrSet(a, k, v) ==
    IF ~IsArrayIndex(k) THEN a
    ELSE LET n == DigitsValue(k, 0) IN
         IF n < Len(a) THEN [a EXCEPT ![n + 1] = v]
         ELSE a \o [j \in 1..(n - Len(a)) |-> Undefined] \o <<v>>

\* container[seg] = v
SetProp(c, seg, v) ==
    IF c.t = "object" THEN Obj(ObjSet(c.o, ToPropertyKey(seg), v))
    ELSE Arr(ArrSet(c.a, ToPropertyKey(seg), v))

(***************************************************************************)
(* JSON.parse: a recursive-descent parser over the text.  A parse result   *)
(* is [ok, v, i]: i is the position after the value.                       *)
(***************************************************************************)
ParseFail == [ok |-> FALSE, v |-> Undefined, i |-> 0]

ParseOk(v, i) == [ok |-> TRUE, v |-> v, i |-> i]

JsonWhitespace == {" ", "\n", "\t", "\r"}

RECURSIVE SkipWs(_, _)
SkipWs(t, i) ==
    IF i <= Len(t) /\ t[i] \in JsonWhitespace THEN SkipWs(t, i + 1) ELSE i

Matches(t, i, lit) ==
    /\ i + Len(lit) - 1 <= Len(t)
    /\ SubSeq(t, i, i + Len(lit) - 1) = lit

\* the escapes of a JSON string (\b and \uXXXX are outside the alphabet)
Unescape(e) ==
    CASE e = "n" -> "\n"
      [] e = "t" -> "\t"
      [] e = "r" -> "\r"
      [] e = "f" -> "\f"
      [] OTHER -> e

RECURSIVE ParseString(_, _, _)
ParseString(t, i, acc) ==
    IF i > Len(t) THEN ParseFail
    ELSE IF t[i] = QUOTE THEN ParseOk(Str(acc), i + 1)
    ELSE IF t[i] \in {"\n", "\t", "\r", "\f"} THEN ParseFail
    ELSE IF t[i] = BACKSLASH
         THEN IF i + 1 <= Len(t) /\ t[i + 1] \in {QUOTE, BACKSLASH, "/", "n", "t", "r", "f"}
              THEN ParseString(t, i + 2, Append(acc, Unescape(t[i + 1])))
              ELSE ParseFail
    ELSE ParseString(t, i + 1, Append(acc, t[i]))

RECURSIVE DigitRun(_, _)
DigitRun(t, i) == IF i <= Len(t) /\ IsDigit(t[i]) THEN DigitRun(t, i + 1) ELSE i

\* -?(0|[1-9][0-9]*)
ParseNumber(t, i) ==
    LET neg == t[i] = "-"
        j == IF neg THEN i + 1 ELSE i
        e == IF j <= Len(t) /\ t[j] = "0" THEN j + 1 ELSE DigitRun(t, j)
        n == DigitsValue(SubSeq(t, j, e - 1), 0)
    IN  IF e = j THEN ParseFail ELSE ParseOk(Num(IF neg THEN -n ELSE n), e)

RECURSIVE ParseValue(_, _), ParseElements(_, _, _), ParseMembers(_, _, _)
ParseValue(t, i0) ==
    LET i == SkipWs(t, i0) IN
    IF i > Len(t) THEN ParseFail
    ELSE CASE t[i] = "{" ->
                LET j == SkipWs(t, i + 1) IN
                IF j <= Len(t) /\ t[j] = "}" THEN ParseOk(Obj(<<>>), j + 1)
                ELSE ParseMembers(t, j, <<>>)
           [] t[i] = "[" ->
                LET j == SkipWs(t, i + 1) IN
                IF j <= Len(t) /\ t[j] = "]" THEN ParseOk(Arr(<<>>), j + 1)
                ELSE ParseElements(t, j, <<>>)
           [] t[i] = QUOTE -> ParseString(t, i + 1, <<>>)
           [] t[i] = "-" \/ IsDigit(t[i]) -> ParseNumber(t, i)
           [] Matches(t, i, <<"t", "r", "u", "e">>) -> ParseOk(Bool(TRUE), i + 4)
           [] Matches(t, i, <<"f", "a", "l", "s", "e">>) -> ParseOk(Bool(FALSE), i + 5)
           [] Matches(t, i, <<"n", "u", "l", "l">>) -> ParseOk(Null, i + 4)
           [] OTHER -> ParseFail

ParseElements(t, i, acc) ==
    LET r == ParseValue(t, i)
        j == SkipWs(t, r.i)
    IN  IF ~r.ok \/ j > Len(t) THEN ParseFail
        ELSE IF t[j] = "," THEN ParseElements(t, j + 1, Append(acc, r.v))
        ELSE IF t[j] = "]" THEN ParseOk(Arr(Append(acc, r.v)), j + 1)
        ELSE ParseFail

ParseMembers(t, i0, acc) ==
    LET i == SkipWs(t, i0)
        k == IF i <= Len(t) /\ t[i] = QUOTE THEN ParseString(t, i + 1, <<>>) ELSE ParseFail
        c == SkipWs(t, k.i)
        r == IF k.ok /\ c <= Len(t) /\ t[c] = ":" THEN ParseValue(t, c + 1) ELSE ParseFail
        j == SkipWs(t, r.i)
    IN  IF ~r.ok \/ j > Len(t) THEN ParseFail
        ELSE IF t[j] = "," THEN ParseMembers(t, j + 1, ObjSet(acc, k.v.s, r.v))
        ELSE IF t[j] = "}" THEN ParseOk(Obj(ObjSet(acc, k.v.s, r.v)), j + 1)
        ELSE ParseFail

\* JSON.parse(text): the value, or a SyntaxError (ok = FALSE)
JsonParse(t) ==
    LET r == ParseValue(t, 1) IN
    IF r.ok /\ SkipWs(t, r.i) = Len(t) + 1 THEN r ELSE ParseFail

(***************************************************************************)
(* JSON.stringify(value, null, 2).                                         *)
(***************************************************************************)
RECURSIVE Spaces(_)
Spaces(n) == IF n = 0 THEN <<>> ELSE <<" ">> \o Spaces(n - 1)

EscapeChar(c) ==
    CASE c = QUOTE -> <<BACKSLASH, QUOTE>>
      [] c = BACKSLASH -> <<BACKSLASH, BACKSLASH>>
      [] c = "\n" -> <<BACKSLASH, "n">>
      [] c = "\t" -> <<BACKSLASH, "t">>
      [] c = "\r" -> <<BACKSLASH, "r">>
      [] c = "\f" -> <<BACKSLASH, "f">>
      [] OTHER -> <<c>>

RECURSIVE EscapeAll(_)
EscapeAll(s) == IF s = <<>> THEN <<>> ELSE EscapeChar(Head(s)) \o EscapeAll(Tail(s))

QuoteString(s) == <<QUOTE>> \o EscapeAll(s) \o <<QUOTE>>

RECURSIVE Stringify(_, _), StringifyItems(_, _, _), StringifyProps(_, _, _)
\* the text of v at nesting depth d
Stringify(v, d) ==
    CASE v.t \in {"null", "undefined"} -> <<"n", "u", "l", "l">>
      [] v.t = "boolean" ->
           IF v.b THEN <<"t", "r", "u", "e">> ELSE <<"f", "a", "l", "s", "e">>
      [] v.t = "number" -> NumberToString(v.n)
      [] v.t = "string" -> QuoteString(v.s)
      [] v.t = "array" ->
           IF v.a = <<>> THEN <<"[", "]">>
           ELSE <<"[", "\n">> \o StringifyItems(v.a, 1, d + 1)
                \o <<"\n">> \o Spaces(2 * d) \o <<"]">>
      [] v.t = "object" ->
           IF v.o = <<>> THEN <<"{", "}">>
           ELSE <<"{", "\n">> \o StringifyProps(v.o, 1, d + 1)
                \o <<"\n">> \o Spaces(2 * d) \o <<"}">>

StringifyItems(a, j, d) ==
    Spaces(2 * d) \o Stringify(a[j], d)
    \o (IF j = Len(a) THEN <<>> ELSE <<",", "\n">> \o StringifyItems(a, j + 1, d))

StringifyProps(o, j, d) ==
    Spaces(2 * d) \o QuoteString(o[j].k) \o <<":", " ">> \o Stringify(o[j].v, d)
    \o (IF j = Len(o) THEN <<>> ELSE <<",", "\n">> \o StringifyProps(o, j + 1, d))

\* JSON.stringify(v, null, 2)
JsonStringify(v) == Stringify(v, 0)

(***************************************************************************)
(* The selected node (useGraph.selectedNode): its rows and its path.  A    *)
(* row is [key, value, type]; key is Null for the single unnamed row of a  *)
(* node that is a bare value.  The graph builder is not part of the        *)
(* component: NodeRows and NodePaths follow the data model (an object      *)
(* yields one row per property, a bare value one unnamed row; a path       *)
(* segment is a number for an array index and a string for a key).         *)
(***************************************************************************)
NoNode == [t |-> "undefined"]

RowOf(k, v) ==
    [key |-> Str(k), value |-> IF IsContainer(v) THEN Undefined ELSE v, type |-> v.t]

NodeRows(v) ==
    IF v.t = "object" THEN [j \in 1..Len(v.o) |-> RowOf(v.o[j].k, v.o[j].v)]
    ELSE <<[key |-> Null, value |-> v, type |-> v.t]>>

RECURSIVE NodePaths(_, _)
NodePaths(v, prefix) ==
    CASE v.t = "object" ->
           {prefix} \cup UNION {NodePaths(v.o[j].v, Append(prefix, Str(v.o[j].k))) :
                                  j \in {i \in 1..Len(v.o) : IsContainer(v.o[i].v)}}
      [] v.t = "array" ->
           UNION {NodePaths(v.a[j], Append(prefix, Num(j - 1))) : j \in 1..Len(v.a)}
      [] OTHER -> {prefix}

\* path.reduce((acc, seg) => acc?.[seg], parsed)
RECURSIVE Reduce(_, _)
Reduce(acc, path) ==
    IF path = <<>> THEN acc ELSE Reduce(GetProp(acc, Head(path)), Tail(path))

NodeOf(doc, p) == [text |-> NodeRows(Reduce(doc, p)), path |-> p]

\* nodeData?.text ?? [] and nodeData?.path ?? []
RowsOf(nd) == IF nd = NoNode THEN <<>> ELSE nd.text

PathOf(nd) == IF nd = NoNode THEN <<>> ELSE nd.path

\* a key in a condition: null, undefined and "" are falsy
Truthy(key) == key.t = "string" /\ key.s # <<>>

IsScalarRow(r) == r.type # "array" /\ r.type # "object"

\* String(v) of a primitive
JsString(v) ==
    CASE v.t = "string" -> v.s
      [] v.t = "number" -> NumberToString(v.n)
      [] v.t = "boolean" ->
           IF v.b THEN <<"t", "r", "u", "e">> ELSE <<"f", "a", "l", "s", "e">>
      [] v.t = "null" -> <<"n", "u", "l", "l">>
      [] OTHER -> <<"u", "n", "d", "e", "f", "i", "n", "e", "d">>

RECURSIVE FilterRows(_)
FilterRows(rows) ==
    IF rows = <<>> THEN <<>>
    ELSE (IF IsScalarRow(Head(rows)) THEN <<Head(rows)>> ELSE <<>>)
         \o FilterRows(Tail(rows))

FormEntry(r) ==
    [key |-> IF r.key.t = "undefined" THEN Null ELSE r.key,
     value |-> IF r.value.t \in {"null", "undefined"} THEN <<>> ELSE JsString(r.value)]

\* the form state the effect computes when the node changes
InitialForm(nd) ==
    LET rows == FilterRows(RowsOf(nd)) IN [j \in 1..Len(rows) |-> FormEntry(rows[j])]

RECURSIVE RowsObject(_, _)
RowsObject(rows, obj) ==
    IF rows = <<>> THEN obj
    ELSE RowsObject(Tail(rows),
                    IF IsScalarRow(Head(rows)) /\ Truthy(Head(rows).key)
                    THEN ObjSet(obj, Head(rows).key.s, Head(rows).value)
                    ELSE obj)

\* the text shown for the node when it is not being edited
normalizeNodeData(nodeRows) ==
    IF nodeRows = <<>> THEN <<"{", "}">>
    ELSE IF Len(nodeRows) = 1 /\ ~Truthy(nodeRows[1].key) THEN JsString(nodeRows[1].value)
    ELSE JsonStringify(Obj(RowsObject(nodeRows, <<>>)))

\* the catch of parseValue: the raw text, as a string
OrElseString(r, val) == IF r.ok THEN r.v ELSE Str(val)

\* JSON.parse(val), and val itself as a string when that throws
parseValue(val) == OrElseString(JsonParse(val), val)

(***************************************************************************)
(* applyEdits, up to the store writes: what the handler computes from the  *)
(* document text, the selected node and the form state.  The module is     *)
(* strict code: an assignment to a property of null or of a primitive      *)
(* throws a TypeError.                                                     *)
(***************************************************************************)
\* parent[lastSeg] = newVal, seen from the root of the parsed document
RECURSIVE AssignAt(_, _, _, _)
AssignAt(root, parentPath, lastSeg, newVal) ==
    IF parentPath = <<>> THEN SetProp(root, lastSeg, newVal)
    ELSE SetProp(root, Head(parentPath),
                 AssignAt(GetProp(root, Head(parentPath)), Tail(parentPath), lastSeg, newVal))

\* mutant of AssignFields: the loop ends after its first entry
AssignFirstField(target, fs) ==
    IF fs = <<>> THEN target
    ELSE IF Truthy(Head(fs).key)
         THEN SetProp(target, Head(fs).key, parseValue(Head(fs).value))
    ELSE target

\* formState.forEach(f => { if (f.key) target[f.key] = parseValue(f.value) })
RECURSIVE AssignFields(_, _)
AssignFields(target, fs) ==
    IF fs = <<>> THEN target
    ELSE AssignFields(IF Truthy(Head(fs).key)
                      THEN SetProp(target, Head(fs).key, parseValue(Head(fs).value))
                      ELSE target,
                      Tail(fs))

\* mutant of PatchTarget: the patched target is taken for the document
PatchedTargetAlone(parsed, path, fs) == AssignFields(Reduce(parsed, path), fs)

\* the parsed document after the fields were assigned to the target at path
PatchTarget(parsed, path, fs) ==
    IF path = <<>> THEN AssignFields(parsed, fs)
    ELSE AssignAt(parsed, SubSeq(path, 1, Len(path) - 1), path[Len(path)],
                  AssignFields(Reduce(parsed, path), fs))

isSingleUnnamed(nd) ==
    Len(RowsOf(nd)) = 1 /\ RowsOf(nd)[1].key.t \in {"null", "undefined"}

Returned == [kind |-> "return", newJson |-> <<>>, error |-> "none"]

Threw(e) == [kind |-> "throw", newJson |-> <<>>, error |-> e]

Write(text) == [kind |-> "write", newJson |-> text, error |-> "none"]

NoWrite == [kind |-> "done", newJson |-> <<>>, error |-> "none"]

\* mutant of EditSingle: at the root the parsed document is written back
EditSingleKeepingRoot(parsed, path, parent, newVal) ==
    IF path = <<>> THEN Write(JsonStringify(parsed))
    ELSE IF parent # Undefined
         THEN IF IsContainer(parent)
              THEN Write(JsonStringify(AssignAt(parsed, SubSeq(path, 1, Len(path) - 1),
                                                path[Len(path)], newVal)))
              ELSE Threw("TypeError")
    ELSE NoWrite

\* the single unnamed value: lines 78-89
EditSingle(parsed, path, parent, newVal) ==
    IF path = <<>> THEN Write(JsonStringify(newVal))
    ELSE IF parent # Undefined
         THEN IF IsContainer(parent)
              THEN Write(JsonStringify(AssignAt(parsed, SubSeq(path, 1, Len(path) - 1),
                                                path[Len(path)], newVal)))
              ELSE Threw("TypeError")
    ELSE NoWrite

\* object-like: lines 92-100
EditFields(parsed, path, target, fs) ==
    IF IsContainer(target) THEN Write(JsonStringify(PatchTarget(parsed, path, fs)))
    ELSE NoWrite

\* lines 66-101, on the parsed document
EditParsed(parsed, nd, fs) ==
    IF isSingleUnnamed(nd)
    THEN EditSingle(parsed, PathOf(nd),
                    Reduce(parsed, SubSeq(PathOf(nd), 1, Len(PathOf(nd)) - 1)),
                    parseValue(IF fs = <<>> THEN <<>> ELSE fs[1].value))
    ELSE EditFields(parsed, PathOf(nd), Reduce(parsed, PathOf(nd)), fs)

\* lines 61-64: raw ? JSON.parse(raw) : undefined
AfterParse(r, nd, fs) == IF r.ok THEN EditParsed(r.v, nd, fs) ELSE Threw("SyntaxError")

applyEdits(raw, nd, fs) ==
    IF raw = <<>> THEN Returned ELSE AfterParse(JsonParse(raw), nd, fs)

(***************************************************************************)
(* Bounds of the model: the document texts the store may hold, the texts   *)
(* the user types into a field, and the number of Save clicks after which *)
(* the run is followed no further.                                         *)
(***************************************************************************)
DocScalars ==
    <<"{", QUOTE, "a", QUOTE, ":", QUOTE, "1", "2", QUOTE, ",", QUOTE, "b", QUOTE, ":",
      "n", "u", "l", "l", ",", QUOTE, "c", QUOTE, ":", "[", "7", "]", "}">>

DocOddKeys == <<"{", QUOTE, QUOTE, ":", "1", ",", QUOTE, "1", QUOTE, ":", "2", "}">>

DocEmptyArray == <<"[", "]">>

DocNested ==
    <<"{", QUOTE, "c", QUOTE, ":", "n", "u", "l", "l", ",", QUOTE, "d", QUOTE, ":",
      "{", QUOTE, "a", QUOTE, ":", "t", "r", "u", "e", "}", "}">>

DocArray == <<"[", "5", "]">>

DocNumber == <<"5">>

DocTruncated == <<"{">>

DocTexts ==
    {DocScalars, DocOddKeys, DocEmptyArray, DocArray, DocNested, DocNumber,
     DocTruncated, <<>>}

TypedValues == {<<"x">>, <<"[", "3", "]">>}

MaxSaves == 1

(***************************************************************************)
(* State.                                                                  *)
(***************************************************************************)
VARIABLES
    json,       \* useJson: the authoritative document text
    contents,   \* useFile: the text of the file
    nodeData,   \* useGraph: the selected node, or NoNode
    formState,  \* the editable fields, [key, value]
    editMode,   \* whether the fields are shown
    opened,     \* whether the modal is open
    alert,      \* the error the last handler reported with alert(), or "none"
    lastOp,     \* the last handler that ran
    saves       \* number of Save clicks so far

vars == <<json, contents, nodeData, formState, editMode, opened, alert, lastOp, saves>>

Init ==
    /\ json \in DocTexts
    /\ contents = json
    /\ nodeData = NoNode
    /\ formState = <<>>
    /\ editMode = FALSE
    /\ opened = FALSE
    /\ alert = "none"
    /\ lastOp = "init"
    /\ saves = 0

\* another part of the application replaces the document
ExternalEdit ==
    /\ saves < MaxSaves
    /\ \E t \in DocTexts \ {json} : json' = t /\ contents' = t
    /\ alert' = "none"
    /\ lastOp' = "external"
    /\ UNCHANGED <<nodeData, formState, editMode, opened, saves>>

\* the effect on [nodeData]: lines 40-48
NodeChanged(nd) ==
    /\ nodeData' = nd
    /\ formState' = InitialForm(nd)
    /\ editMode' = FALSE

SelectIn(doc) == \E p \in NodePaths(doc, <<>>) : NodeChanged(NodeOf(doc, p))

\* a node of the graph of the current document is clicked: the modal opens
\* on it, and the effect resets the form
SelectNode ==
    /\ saves < MaxSaves
    /\ JsonParse(json).ok
    /\ SelectIn(JsonParse(json).v)
    /\ opened' = TRUE
    /\ alert' = "none"
    /\ lastOp' = "select"
    /\ UNCHANGED <<json, contents, saves>>

\* the Edit/Cancel button of the header
ToggleEdit ==
    /\ saves < MaxSaves
    /\ opened
    /\ nodeData # NoNode
    /\ editMode' = ~editMode
    /\ alert' = "none"
    /\ lastOp' = IF editMode THEN "cancel" ELSE "edit"
    /\ UNCHANGED <<json, contents, nodeData, formState, opened, saves>>

\* the Cancel button under the fields
Cancel ==
    /\ saves < MaxSaves
    /\ opened
    /\ editMode
    /\ editMode' = FALSE
    /\ alert' = "none"
    /\ lastOp' = "cancel"
    /\ UNCHANGED <<json, contents, nodeData, formState, opened, saves>>

\* typing into field i
ChangeField ==
    /\ saves < MaxSaves
    /\ opened
    /\ editMode
    /\ \E i \in 1..Len(formState), v \in TypedValues :
          /\ formState[i].value # v
          /\ formState' = [formState EXCEPT ![i].value = v]
    /\ alert' = "none"
    /\ lastOp' = "change"
    /\ UNCHANGED <<json, contents, nodeData, editMode, opened, saves>>

\* setJson(text), setContents({ contents: text }): the store takes the text,
\* or the call raises and the store stays as it was
StoreWrite(old, text, raises) == IF raises THEN old ELSE text

\* the end of applyEdits: the two store writes (lines 82-83, 87-88, 98-99),
\* then setEditMode(false) and onClose (103-104), or the alert of the catch
\* (105-109).  fault names the store write that raises, if one does: after
\* it nothing more of the try block runs.
Finish(r, fault) ==
    /\ r.kind # "write" => fault = "none"
    /\ json' = IF r.kind = "write" THEN StoreWrite(json, r.newJson, fault = "setJson")
               ELSE json
    /\ contents' = IF r.kind = "write" /\ fault # "setJson"
                   THEN StoreWrite(contents, r.newJson, fault = "setContents")
                   ELSE contents
    /\ alert' = IF r.kind = "throw" THEN r.error
                ELSE IF fault # "none" THEN "Error" ELSE "none"
    /\ editMode' = (r.kind = "return" \/ r.kind = "throw" \/ fault # "none")
    /\ opened' = (r.kind = "return" \/ r.kind = "throw" \/ fault # "none")

\* the Save button
Save ==
    /\ opened
    /\ editMode
    /\ saves < MaxSaves
    /\ \E fault \in {"none", "setJson", "setContents"} :
          Finish(applyEdits(json, nodeData, formState), fault)
    /\ lastOp' = "save"
    /\ saves' = saves + 1
    /\ UNCHANGED <<nodeData, formState>>

\* the close button of the header
Close ==
    /\ saves < MaxSaves
    /\ opened
    /\ opened' = FALSE
    /\ alert' = "none"
    /\ lastOp' = "close"
    /\ UNCHANGED <<json, contents, nodeData, formState, editMode, saves>>

Next ==
    \/ ExternalEdit
    \/ SelectNode
    \/ ToggleEdit
    \/ Cancel
    \/ ChangeField
    \/ Save
    \/ Close

Spec == Init /\ [][Next]_vars

(***************************************************************************)
(* Vocabulary of the properties.                                           *)
(***************************************************************************)
\* this step is a click on Save
SaveStep == lastOp' = "save" /\ saves' = saves + 1

\* the document, parsed
Document == JsonParse(json).v

Parsable == JsonParse(json).ok

ObjectLike == nodeData # NoNode /\ ~isSingleUnnamed(nodeData)

ParentPath(path) == SubSeq(path, 1, Len(path) - 1)

\* the segment names a property that container v has
Present(v, seg) ==
    IF v.t = "object" THEN HasOwn(v.o, ToPropertyKey(seg))
    ELSE IsArrayIndex(ToPropertyKey(seg)) /\ DigitsValue(ToPropertyKey(seg), 0) < Len(v.a)

\* every segment of the path is found in an object or array
RECURSIVE Resolves(_, _)
Resolves(v, path) ==
    \/ path = <<>>
    \/ /\ IsContainer(v)
       /\ Present(v, Head(path))
       /\ Resolves(GetProp(v, Head(path)), Tail(path))

\* the location the node's path names cannot be resolved in the document:
\* the parent of a single value, the target of an object-like node
Unresolved(doc, nd) ==
    IF isSingleUnnamed(nd)
    THEN \/ ~Resolves(doc, ParentPath(nd.path))
         \/ ~IsContainer(Reduce(doc, ParentPath(nd.path)))
    ELSE \/ ~Resolves(doc, nd.path)
         \/ ~IsContainer(Reduce(doc, nd.path))

\* the keys of the form entries whose key is not null
FormKeys(fs) == {fs[j].key.s : j \in {i \in 1..Len(fs) : fs[i].key # Null}}

\* the entries of a container, as <<key, value>>
Entries(c) ==
    IF c.t = "object" THEN {<<c.o[j].k, c.o[j].v>> : j \in 1..Len(c.o)}
    ELSE {<<NumberToString(j - 1), c.a[j]>> : j \in 1..Len(c.a)}

OtherEntries(c, keys) == {e \in Entries(c) : e[1] \notin keys}

\* the document with the value at path blanked
Blanked(doc, path) ==
    IF path = <<>> THEN Null
    ELSE AssignAt(doc, ParentPath(path), path[Len(path)], Null)

\* old and new differ at most in the entries target[k], k a key of the form
FrameHolds(old, new, path, keys) ==
    IF ~IsContainer(Reduce(old, path)) THEN new = old
    ELSE /\ Reduce(new, path).t = Reduce(old, path).t
         /\ OtherEntries(Reduce(new, path), keys) = OtherEntries(Reduce(old, path), keys)
         /\ Blanked(new, path) = Blanked(old, path)

\* every form key that is not empty is an index within, or just past, array c
IndexKeysWithin(c, fs) ==
    \A j \in 1..Len(fs) :
        Truthy(fs[j].key) =>
            IsArrayIndex(fs[j].key.s) /\ DigitsValue(fs[j].key.s, 0) <= Len(c.a)

\* equality of JSON values, whatever the order of the keys of an object
RECURSIVE DeepEqual(_, _)
DeepEqual(x, y) ==
    /\ x.t = y.t
    /\ CASE x.t = "object" ->
              /\ Len(x.o) = Len(y.o)
              /\ \A j \in 1..Len(x.o) :
                    /\ HasOwn(y.o, x.o[j].k)
                    /\ DeepEqual(x.o[j].v, y.o[OwnIndex(y.o, x.o[j].k)].v)
         [] x.t = "array" ->
              /\ Len(x.a) = Len(y.a)
              /\ \A j \in 1..Len(x.a) : DeepEqual(x.a[j], y.a[j])
         [] OTHER -> x = y

Orderings(n) == {f \in [1..n -> 1..n] : \A i, j \in 1..n : f[i] = f[j] => i = j}

Permuted(fs, f) == [j \in 1..Len(fs) |-> fs[f[j]]]

DistinctKeys(fs) ==
    \A i, j \in 1..Len(fs) :
        (Truthy(fs[i].key) /\ fs[i].key = fs[j].key) => i = j

AllKeysPresent(target, fs) ==
    \A j \in 1..Len(fs) : Truthy(fs[j].key) => Present(target, fs[j].key)

\* two results of applyEdits write deep-equal documents, or both write none
SameDocument(a, b) ==
    \/ a = b
    \/ /\ a.kind = "write" /\ b.kind = "write"
       /\ DeepEqual(JsonParse(a.newJson).v, JsonParse(b.newJson).v)

\* what Save computes from doc with the entries in every order: the same
\* text where sameText is asked, a deep-equal document elsewhere
AnyOrder(doc, nd, fs, base, sameText) ==
    \A f \in Orderings(Len(fs)) :
        IF sameText THEN EditParsed(doc, nd, Permuted(fs, f)) = base
        ELSE SameDocument(EditParsed(doc, nd, Permuted(fs, f)), base)

(***************************************************************************)
(* The reference of normalize: {} for no rows, the value of a single row   *)
(* whose key is null, and otherwise key: value for every scalar row, in    *)
(* row order, the last row of a key giving its value.                      *)
(***************************************************************************)
RECURSIVE RowsMapping(_, _)
RowsMapping(rows, obj) ==
    IF rows = <<>> THEN obj
    ELSE RowsMapping(Tail(rows),
                     IF IsScalarRow(Head(rows)) /\ Head(rows).key.t = "string"
                     THEN IF HasOwn(obj, Head(rows).key.s)
                          THEN [obj EXCEPT ![OwnIndex(obj, Head(rows).key.s)].v = Head(rows).value]
                          ELSE Append(obj, [k |-> Head(rows).key.s, v |-> Head(rows).value])
                     ELSE obj)

NormalizeReference(rows) ==
    IF rows = <<>> THEN JsonStringify(Obj(<<>>))
    ELSE IF Len(rows) = 1 /\ rows[1].key = Null THEN JsString(rows[1].value)
    ELSE JsonStringify(Obj(RowsMapping(rows, <<>>)))

(***************************************************************************)
(* The properties.                                                         *)
(***************************************************************************)

\* C1: a Save that ends in failure (an exception was caught and reported)
\* leaves both stores with the text they had before it.
C1_FailedSaveWritesNothing ==
    [][(SaveStep /\ alert' # "none") => (json' = json /\ contents' = contents)]_vars

\* C2: a Save on a parsable document in which the location named by a
\* non-empty path cannot be resolved changes no text and reports no failure.
C2_UnresolvedPathIsSilent ==
    [][(SaveStep /\ Parsable /\ PathOf(nodeData) # <<>> /\ Unresolved(Document, nodeData))
        => (json' = json /\ contents' = contents /\ alert' = "none")]_vars

\* C3: a Save while the document text is missing or does not parse changes
\* no text and reports a failure.
C3_InvalidDocumentIsReported ==
    [][(SaveStep /\ ~Parsable)
        => (json' = json /\ contents' = contents /\ alert' # "none")]_vars

\* C4, as claimed: a Save on an object-like node changes nothing of the
\* document but the entries target[k] for the keys k of the form.
C4_FrameOfAnyTarget ==
    [][(SaveStep /\ ObjectLike /\ Parsable)
        => /\ JsonParse(json').ok
           /\ FrameHolds(Document, JsonParse(json').v, nodeData.path, FormKeys(formState))]_vars

\* C4, amended: a Save on an object-like node whose target is an object, or
\* an array of which every non-empty form key is an index no greater than
\* its length, changes nothing of the document but the entries target[k]
\* for the keys k of the form.
C4_FrameOfObjectTarget ==
    [][(/\ SaveStep /\ ObjectLike /\ Parsable
        /\ \/ Reduce(Document, nodeData.path).t # "array"
           \/ IndexKeysWithin(Reduce(Document, nodeData.path), formState))
        => /\ JsonParse(json').ok
           /\ FrameHolds(Document, JsonParse(json').v, nodeData.path, FormKeys(formState))]_vars

\* C4 witness: an object-like Save on a nested object completed, wrote an
\* edited field into it, and the document still has what was beside it.
C4_Witness ==
    /\ lastOp = "save" /\ alert = "none" /\ ~opened
    /\ ObjectLike /\ nodeData.path # <<>>
    /\ Parsable
    /\ Reduce(Document, nodeData.path).t = "object"
    /\ Document.t = "object" /\ Len(Document.o) > 1
    /\ \E j \in 1..Len(formState) :
          /\ Truthy(formState[j].key)
          /\ formState[j].value # InitialForm(nodeData)[j].value
          /\ GetProp(Reduce(Document, nodeData.path), formState[j].key)
               = parseValue(formState[j].value)

\* C5: after a Save on an object-like node whose target is an object or an
\* array, target[key] is the coerced value of every form entry whose key is
\* not null.
C5_EveryKeyAssigned ==
    [][(/\ SaveStep /\ ObjectLike /\ Parsable /\ alert' = "none"
        /\ IsContainer(Reduce(Document, nodeData.path)))
        => \A j \in 1..Len(formState) :
              formState[j].key # Null =>
                  GetProp(Reduce(JsonParse(json').v, nodeData.path), formState[j].key)
                    = parseValue(formState[j].value)]_vars

\* C6: a Save of the unmodified form of a node of the current document
\* leaves a document equal to the one before.
C6_RoundTrip ==
    [][(/\ SaveStep /\ Parsable /\ alert' = "none"
        /\ nodeData # NoNode
        /\ PathOf(nodeData) \in NodePaths(Document, <<>>)
        /\ nodeData = NodeOf(Document, PathOf(nodeData))
        /\ formState = InitialForm(nodeData))
        => DeepEqual(JsonParse(json').v, Document)]_vars

\* C7: a Save on a single unnamed value with an empty path that completes
\* on a parsable document makes the coerced field value the whole document,
\* in both stores.
C7_RootReplaced ==
    [][(/\ SaveStep /\ Parsable /\ alert' = "none"
        /\ nodeData # NoNode /\ isSingleUnnamed(nodeData) /\ nodeData.path = <<>>)
        => /\ JsonParse(json').ok
           /\ JsonParse(json').v = parseValue(formState[1].value)
           /\ contents' = json']_vars

\* C7 witness: a root replacement completed, and the document is now an
\* array although the node was selected as another value.
C7_Witness ==
    /\ lastOp = "save" /\ alert = "none" /\ ~opened
    /\ nodeData # NoNode /\ isSingleUnnamed(nodeData) /\ nodeData.path = <<>>
    /\ formState[1].value # InitialForm(nodeData)[1].value
    /\ Parsable /\ Document.t = "array"
    /\ contents = json

\* C8: the text shown for the rows of the node is that of the reference.
C8_NormalizeAgrees ==
    normalizeNodeData(RowsOf(nodeData)) = NormalizeReference(RowsOf(nodeData))

\* C9: when edit mode is entered right after a Cancel or a selection, the
\* form holds the projection of the rows of the selected node.
C9_FormRecomputed ==
    [][(lastOp \in {"cancel", "select"} /\ lastOp' = "edit")
        => formState' = InitialForm(nodeData')]_vars

\* C10, as claimed: for an object-like node, Save writes the same text
\* whatever the order of the form entries.
C10_AnyOrderSameText ==
    (editMode /\ ObjectLike /\ Parsable) =>
        AnyOrder(Document, nodeData, formState,
                 EditParsed(Document, nodeData, formState), TRUE)

\* C10, amended: for an object-like node whose target is an object and a
\* form whose non-empty keys are distinct, Save writes a deep-equal document
\* whatever the order of the form entries, and the same text when every
\* such key is already a key of the target.
C10_AnyOrderSameDocument ==
    (/\ editMode /\ ObjectLike /\ Parsable
     /\ Reduce(Document, nodeData.path).t = "object"
     /\ DistinctKeys(formState)) =>
        AnyOrder(Document, nodeData, formState,
                 EditParsed(Document, nodeData, formState),
                 AllKeysPresent(Reduce(Document, nodeData.path), formState))

\* C10 witness: an object-like node is being edited on an object that has
\* none of two distinct form keys, so that the order of the entries shows
\* in the text that Save would write.
C10_Witness ==
    /\ editMode /\ ObjectLike /\ Parsable
    /\ Reduce(Document, nodeData.path).t = "object"
    /\ DistinctKeys(formState)
    /\ \E i, j \in 1..Len(formState) :
          /\ i # j
          /\ Truthy(formState[i].key) /\ Truthy(formState[j].key)
          /\ ~Present(Reduce(Document, nodeData.path), formState[i].key)
          /\ ~Present(Reduce(Document, nodeData.path), formState[j].key)
    /\ \E f \in Orderings(Len(formState)) :
          EditParsed(Document, nodeData, Permuted(formState, f))
            # EditParsed(Document, nodeData, formState)

====
